---- MODULE Spec2Model ----
(***************************************************************************)
(* The vector mechanism of diffprivlib (mechanisms/vector.py): the         *)
(* configuration entity with its setters and check_inputs, randomise with  *)
(* its budget derivation and noise draw, and the closure output_func that  *)
(* randomise returns.                                                      *)
(*                                                                         *)
(* Numbers are Python numbers.  A float is modelled in fixed point, in     *)
(* ticks of 1/Unit, together with the three special floats nan, inf and    *)
(* -inf; a Python int keeps its own kind; any object that is not a         *)
(* numbers.Real (a str, say) is one more kind, and None another.           *)
(***************************************************************************)
EXTENDS Integers, Sequences, FiniteSets, TLC

\* ticks per 1.0 of the fixed-point floats
Unit == 10 * 1000

\* bound on the calls of np.random.normal made by randomise
MaxDraws == 1
\* the same bound where the entity is reused for several wrappers
MaxReuse == 2
\* bound on the calls of wrappers made by the optimizer
MaxCalls == 2

(***************************************************************************)
(* Python values                                                           *)
(***************************************************************************)
Fin(n) == [k |-> "fin", v |-> n]
IntVal(n) == [k |-> "int", v |-> n]
NaN == [k |-> "nan", v |-> 0]
PosInf == [k |-> "inf", v |-> 0]
NegInf == [k |-> "ninf", v |-> 0]
NonNumber == [k |-> "obj", v |-> 0]
None == [k |-> "none", v |-> 0]

Zero == Fin(0)
One == Fin(Unit)
Two == Fin(2 * Unit)
Four == Fin(4 * Unit)
Half == Fin(Unit \div 2)

\* isinstance(x, Real)
IsReal(x) == x.k \in {"fin", "int", "nan", "inf", "ninf"}

\* a Python int used in float arithmetic
AsFloat(x) == IF x.k = "int" THEN Fin(x.v * Unit) ELSE x

Abs(n) == IF n < 0 THEN -n ELSE n
Sgn(n) == IF n < 0 THEN -1 ELSE IF n > 0 THEN 1 ELSE 0

\* n / m rounded to the nearest integer, m > 0
RoundDiv(n, m) == Sgn(n) * ((Abs(n) + (m \div 2)) \div m)

\* the sign of a float that is not nan
SignOf(x) == IF x.k = "inf" THEN 1 ELSE IF x.k = "ninf" THEN -1 ELSE Sgn(x.v)
Signed(s) == IF s > 0 THEN PosInf ELSE IF s < 0 THEN NegInf ELSE NaN

\* x < y, x <= y, x == y of IEEE floats: every comparison with nan is false
Rank(x) == IF x.k = "inf" THEN 1 ELSE IF x.k = "ninf" THEN -1 ELSE 0
Lt(a, b) ==
    LET x == AsFloat(a)
        y == AsFloat(b)
    IN  /\ x.k # "nan" /\ y.k # "nan"
        /\ \/ Rank(x) < Rank(y)
           \/ Rank(x) = 0 /\ Rank(y) = 0 /\ x.v < y.v
Eq(a, b) ==
    LET x == AsFloat(a)
        y == AsFloat(b)
    IN  x.k # "nan" /\ y.k # "nan" /\ x = y
Le(a, b) == Lt(a, b) \/ Eq(a, b)

Neg(x) ==
    CASE x.k = "fin" -> Fin(-x.v)
      [] x.k = "inf" -> NegInf
      [] x.k = "ninf" -> PosInf
      [] OTHER -> NaN

Add(a, b) ==
    LET x == AsFloat(a)
        y == AsFloat(b)
    IN  CASE x.k = "nan" \/ y.k = "nan" -> NaN
          [] x.k = "fin" /\ y.k = "fin" -> Fin(x.v + y.v)
          [] x.k = "fin" -> y
          [] y.k = "fin" -> x
          [] OTHER -> IF x = y THEN x ELSE NaN

Sub(a, b) == Add(a, Neg(AsFloat(b)))

Mul(a, b) ==
    LET x == AsFloat(a)
        y == AsFloat(b)
    IN  CASE x.k = "nan" \/ y.k = "nan" -> NaN
          [] x.k = "fin" /\ y.k = "fin" -> Fin(RoundDiv(x.v * y.v, Unit))
          [] OTHER -> Signed(SignOf(x) * SignOf(y))

\* x / y of numpy floats: a zero divisor gives inf or nan, never an exception.
\* Python's own float division is the same wherever the divisor is not zero.
Div(a, b) ==
    LET x == AsFloat(a)
        y == AsFloat(b)
    IN  CASE x.k = "nan" \/ y.k = "nan" -> NaN
          [] x.k = "fin" /\ y.k = "fin" ->
               IF y.v = 0 THEN Signed(Sgn(x.v))
               ELSE Fin(Sgn(y.v) * RoundDiv(x.v * Unit, Abs(y.v)))
          [] x.k = "fin" -> Zero
          [] y.k = "fin" -> Signed(SignOf(x) * (IF y.v < 0 THEN -1 ELSE 1))
          [] OTHER -> NaN

IsZero(x) == Eq(x, Zero)

\* ln of t ticks, Unit <= t <= 2 * Unit: 2 * atanh((t - 1) / (t + 1))
LnSeries(t) ==
    LET z == RoundDiv((t - Unit) * Unit, t + Unit)
        z2 == RoundDiv(z * z, Unit)
        z3 == RoundDiv(z * z2, Unit)
        z5 == RoundDiv(z3 * z2, Unit)
        z7 == RoundDiv(z5 * z2, Unit)
        z9 == RoundDiv(z7 * z2, Unit)
    IN  RoundDiv(2 * (315 * z + 105 * z3 + 63 * z5 + 45 * z7 + 35 * z9), 315)

RECURSIVE LnTicks(_)
LnTicks(t) ==
    IF t > 2 * Unit THEN LnSeries(2 * Unit) + LnTicks(RoundDiv(t, 2))
    ELSE IF t < Unit THEN -LnTicks(RoundDiv(Unit * Unit, t))
    ELSE LnSeries(t)

\* np.log
Ln(a) ==
    LET x == AsFloat(a)
    IN  CASE x.k = "nan" \/ x.k = "ninf" -> NaN
          [] x.k = "inf" -> PosInf
          [] x.v < 0 -> NaN
          [] x.v = 0 -> NegInf
          [] OTHER -> Fin(LnTicks(x.v))

\* the Taylor terms of exp from the k-th on, for t ticks
RECURSIVE ExpTail(_, _, _)
ExpTail(t, term, k) ==
    IF term = 0 \/ k > 16 THEN 0
    ELSE term + ExpTail(t, RoundDiv(term * t, k * Unit), k + 1)

\* np.exp
Exp(a) ==
    LET x == AsFloat(a)
    IN  CASE x.k = "nan" -> NaN
          [] x.k = "inf" -> PosInf
          [] x.k = "ninf" -> Zero
          [] x.v < 0 -> Div(One, Fin(ExpTail(-x.v, Unit, 1)))
          [] OTHER -> Fin(ExpTail(x.v, Unit, 1))

(***************************************************************************)
(* The configuration entity and its setters.  An operation yields the      *)
(* exception it raises ("ok" when it returns) and the entity afterwards.   *)
(***************************************************************************)
Outcome(r, s) == [res |-> r, self |-> s]

\* DPMechanism.__init__: the shared epsilon/delta storage, both unset
BaseInit == [epsilon |-> None, delta |-> None]

\* Vector.__init__
VectorInit ==
    [epsilon |-> BaseInit.epsilon,
     delta |-> BaseInit.delta,
     function_sensitivity |-> None,
     data_sensitivity |-> IntVal(1),
     d |-> None,
     alpha |-> Fin(Unit \div 100)]

\* DPMechanism.set_epsilon_delta: the shared validation, epsilon > 0
BaseSetEpsilonDelta(s, epsilon, delta) ==
    IF ~IsReal(epsilon) \/ ~IsReal(delta) THEN Outcome("TypeError", s)
    ELSE IF ~Lt(Zero, epsilon) THEN Outcome("ValueError", s)
    ELSE Outcome("ok", [s EXCEPT !.epsilon = AsFloat(epsilon), !.delta = AsFloat(delta)])

\* Vector.set_epsilon_delta
SetEpsilonDelta(s, epsilon, delta) ==
    IF ~Eq(delta, Zero) THEN Outcome("ValueError", s)
    ELSE BaseSetEpsilonDelta(s, epsilon, delta)

\* Vector.set_sensitivity
SetSensitivity(s, function_sensitivity, data_sensitivity) ==
    IF ~IsReal(function_sensitivity) \/ ~IsReal(data_sensitivity)
    THEN Outcome("TypeError", s)
    ELSE IF Le(function_sensitivity, Zero) \/ Le(data_sensitivity, Zero)
    THEN Outcome("ValueError", s)
    ELSE Outcome("ok", [s EXCEPT !.function_sensitivity = function_sensitivity,
                                 !.data_sensitivity = data_sensitivity])

\* Vector.set_alpha
SetAlpha(s, alpha) ==
    IF ~IsReal(alpha) THEN Outcome("TypeError", s)
    ELSE IF Le(alpha, Zero) THEN Outcome("ValueError", s)
    ELSE Outcome("ok", [s EXCEPT !.alpha = alpha])

\* int(d) of a Real: truncation toward zero; nan and the infinities raise
ToInt(x) ==
    CASE x.k = "int" -> Outcome("ok", x)
      [] x.k = "fin" -> Outcome("ok", IntVal(Sgn(x.v) * (Abs(x.v) \div Unit)))
      [] x.k = "nan" -> Outcome("ValueError", x)
      [] OTHER -> Outcome("OverflowError", x)

\* np.isclose(a, b) of finite a, b: |a - b| <= 1e-8 + 1e-5 * |b|
IsClose(a, b) ==
    LET x == AsFloat(a)
        y == AsFloat(b)
    IN  Abs(x.v - y.v) * 100000 <= 10 + Abs(y.v)

\* Vector.set_dimension
SetDimension(s, d) ==
    IF ~IsReal(d) THEN Outcome("TypeError", s)
    ELSE LET i == ToInt(d)
         IN  IF i.res # "ok" THEN Outcome(i.res, s)
             ELSE IF ~IsClose(d, i.self) THEN Outcome("TypeError", s)
             ELSE IF ~Le(One, d) THEN Outcome("ValueError", s)
             ELSE Outcome("ok", [s EXCEPT !.d = i.self])

\* the objective handed to randomise: something that is not callable, a
\* function returning a bare scalar, a function returning a (scalar, gradient)
\* tuple with a new gradient array at each call, or one returning a tuple
\* with the same gradient array at each call
Callables == {"scalar", "pair", "pair_shared"}
Function(kind) == [k |-> kind, v |-> 0]
IsCallable(value) == value.k \in Callables

\* DPMechanism.check_inputs: epsilon is set and positive
BaseCheckInputs(s, value) ==
    IF s.epsilon = None \/ ~Lt(Zero, s.epsilon) THEN "ValueError" ELSE "ok"

\* check_inputs without its last check, of the dimension
CheckInputsNoDimension(s, value) ==
    IF BaseCheckInputs(s, value) # "ok" THEN BaseCheckInputs(s, value)
    ELSE IF ~IsCallable(value) THEN "TypeError"
    ELSE IF s.data_sensitivity = None \/ s.function_sensitivity = None THEN "ValueError"
    ELSE "ok"

\* Vector.check_inputs
CheckInputs(s, value) ==
    IF BaseCheckInputs(s, value) # "ok" THEN BaseCheckInputs(s, value)
    ELSE IF ~IsCallable(value) THEN "TypeError"
    ELSE IF s.data_sensitivity = None \/ s.function_sensitivity = None THEN "ValueError"
    ELSE IF s.d = None THEN "ValueError"
    ELSE "ok"

(***************************************************************************)
(* randomise                                                               *)
(***************************************************************************)
\* the budget with the fallback taken for epsilon_p < 0 only
BudgetStrict(s) ==
    LET c == s.function_sensitivity
        g == s.data_sensitivity
        a == s.alpha
        half_a == Mul(Half, a)
        epsilon_p == Sub(s.epsilon, Mul(Two, Ln(Add(One, Div(Mul(c, g), half_a)))))
        fallback == Lt(epsilon_p, Zero)
    IN  IF IsZero(half_a)
        THEN [res |-> "ZeroDivisionError", epsilon_p |-> None, delta |-> None,
              scale |-> None, numpy |-> FALSE]
        ELSE IF fallback
        THEN [res |-> "ok",
              epsilon_p |-> Div(s.epsilon, Two),
              delta |-> Sub(Div(Mul(c, g), Sub(Exp(Div(s.epsilon, Four)), One)), half_a),
              scale |-> Div(Div(Div(s.epsilon, Two), Two), g),
              numpy |-> FALSE]
        ELSE [res |-> "ok",
              epsilon_p |-> epsilon_p,
              delta |-> IntVal(0),
              scale |-> Div(Div(epsilon_p, Two), g),
              numpy |-> TRUE]

\* randomise, lines 181-192: the budget derived from the configuration.  c, g,
\* a and epsilon are Python numbers, np.log and np.exp return numpy floats:
\* epsilon_p is a numpy float unless the fallback reassigns it, and Python's
\* own division raises on a zero divisor where numpy's returns inf or nan.
Budget(s) ==
    LET c == s.function_sensitivity
        g == s.data_sensitivity
        a == s.alpha
        half_a == Mul(Half, a)
        epsilon_p == Sub(s.epsilon, Mul(Two, Ln(Add(One, Div(Mul(c, g), half_a)))))
        fallback == Le(epsilon_p, Zero)
    IN  IF IsZero(half_a)
        THEN [res |-> "ZeroDivisionError", epsilon_p |-> None, delta |-> None,
              scale |-> None, numpy |-> FALSE]
        ELSE IF fallback
        THEN [res |-> "ok",
              epsilon_p |-> Div(s.epsilon, Two),
              delta |-> Sub(Div(Mul(c, g), Sub(Exp(Div(s.epsilon, Four)), One)), half_a),
              scale |-> Div(Div(Div(s.epsilon, Two), Two), g),
              numpy |-> FALSE]
        ELSE [res |-> "ok",
              epsilon_p |-> epsilon_p,
              delta |-> IntVal(0),
              scale |-> Div(Div(epsilon_p, Two), g),
              numpy |-> TRUE]

NoBudget == [epsilon_p |-> None, delta |-> None, scale |-> None]
BudgetOf(b) == [epsilon_p |-> b.epsilon_p, delta |-> b.delta, scale |-> b.scale]

\* randomise, lines 194-198: the vectors normal / norm * gamma can be, for a
\* gamma draw of scale 1 / scale: of a continuum of finite vectors, two
NoiseVectors(d, inv_scale) ==
    IF inv_scale.k = "nan" THEN {[i \in 1..d |-> NaN]}
    ELSE IF inv_scale.k = "inf" THEN [1..d -> {PosInf, NegInf}]
    ELSE {[i \in 1..d |-> IF i % 2 = 1 THEN Fin(3 * (Unit \div 10))
                                       ELSE Fin(-4 * (Unit \div 10))],
          [i \in 1..d |-> IF i % 2 = 1 THEN Fin(-4 * (Unit \div 10))
                                       ELSE Fin(3 * (Unit \div 10))]}

\* the scaled vector kept in one array of the entity, which every wrapper
\* refers to
CaptureShared(arrs, b) ==
    [arrays |-> IF arrs = <<>> THEN <<b>> ELSE [arrs EXCEPT ![1] = b], noise |-> 1]

\* randomise, line 198 and the closure of line 200: the array of the scaled
\* vector is a new one, and output_func refers to it alone
Capture(arrs, b) == [arrays |-> Append(arrs, b), noise |-> Len(arrs) + 1]

\* randomise storing the derived epsilon_p in the entity
RandomisePlanStores(s, value) ==
    LET chk == CheckInputs(s, value)
        b == Budget(s)
    IN  IF chk # "ok"
        THEN [res |-> chk, self |-> s, budget |-> NoBudget, inv_scale |-> None,
              normal |-> 0, gamma |-> 0]
        ELSE IF b.res # "ok"
        THEN [res |-> b.res, self |-> s, budget |-> NoBudget, inv_scale |-> None,
              normal |-> 0, gamma |-> 0]
        ELSE IF ~b.numpy /\ IsZero(b.scale)
        THEN [res |-> "ZeroDivisionError", self |-> s, budget |-> BudgetOf(b),
              inv_scale |-> None, normal |-> 1, gamma |-> 0]
        ELSE [res |-> "ok", self |-> [s EXCEPT !.epsilon = b.epsilon_p],
              budget |-> BudgetOf(b),
              inv_scale |-> Div(One, b.scale), normal |-> 1, gamma |-> 1]

\* randomise up to the gamma draw: the exception raised ("ok" when the wrapper
\* is returned), the entity afterwards, the budget, and the draws made
RandomisePlan(s, value) ==
    LET chk == CheckInputs(s, value)
        b == Budget(s)
    IN  IF chk # "ok"
        THEN [res |-> chk, self |-> s, budget |-> NoBudget, inv_scale |-> None,
              normal |-> 0, gamma |-> 0]
        ELSE IF b.res # "ok"
        THEN [res |-> b.res, self |-> s, budget |-> NoBudget, inv_scale |-> None,
              normal |-> 0, gamma |-> 0]
        ELSE IF ~b.numpy /\ IsZero(b.scale)
        THEN [res |-> "ZeroDivisionError", self |-> s, budget |-> BudgetOf(b),
              inv_scale |-> None, normal |-> 1, gamma |-> 0]
        ELSE [res |-> "ok", self |-> s, budget |-> BudgetOf(b),
              inv_scale |-> Div(One, b.scale), normal |-> 1, gamma |-> 1]


(***************************************************************************)
(* output_func, the closure randomise returns                              *)
(***************************************************************************)
RECURSIVE Dot(_, _)
\* np.dot of two vectors of one length
Dot(x, y) ==
    IF Len(x) = 0 THEN Zero
    ELSE Add(Mul(Head(x), Head(y)), Dot(Tail(x), Tail(y)))

\* x + y and k * x of arrays
VecAdd(x, y) == [i \in 1..Len(x) |-> Add(x[i], y[i])]
VecScale(k, x) == [i \in 1..Len(x) |-> Mul(k, x[i])]
ZeroVector(n) == [i \in 1..n |-> Zero]

\* the objectives of the optimizer: the sum of squares of w, alone ("scalar")
\* or with its gradient 2w in a new array ("pair"); and the constant 0.0 with
\* the one gradient array, held by the caller, that it returns at every call
\* ("pair_shared": buffer is that array's content now)
ValueOf(kind, w, buffer) ==
    CASE kind = "scalar" -> [tuple |-> FALSE, func |-> Dot(w, w), grad |-> <<>>]
      [] kind = "pair" -> [tuple |-> TRUE, func |-> Dot(w, w), grad |-> VecScale(Two, w)]
      [] OTHER -> [tuple |-> TRUE, func |-> Zero, grad |-> buffer]

\* output_func adding delta * dot(w, w), without the factor 0.5
OutputFuncNoHalf(b, delta, w, r) ==
    LET func1 == Add(r.func, Dot(b, w))
        func2 == Add(func1, Mul(delta, Dot(w, w)))
        grad2 == VecAdd(r.grad, VecAdd(b, VecScale(delta, w)))
    IN  IF r.tuple
        THEN [shape |-> "pair", func |-> func2, grad |-> grad2,
              value_func |-> r.func, value_grad |-> r.grad, object_after |-> grad2]
        ELSE [shape |-> "scalar", func |-> func2, grad |-> <<>>,
              value_func |-> r.func, value_grad |-> <<>>, object_after |-> <<>>]

\* output_func(w) of a wrapper capturing noise array b and residual delta,
\* around an objective whose call returned r: what it returns, and the content
\* afterwards of the gradient array r holds (grad += writes into that array)
OutputFunc(b, delta, w, r) ==
    LET func1 == Add(r.func, Dot(b, w))
        func2 == Add(func1, Mul(Mul(Half, delta), Dot(w, w)))
        grad2 == VecAdd(r.grad, VecAdd(b, VecScale(delta, w)))
    IN  IF r.tuple
        THEN [shape |-> "pair", func |-> func2, grad |-> grad2,
              value_func |-> r.func, value_grad |-> r.grad, object_after |-> grad2]
        ELSE [shape |-> "scalar", func |-> func2, grad |-> <<>>,
              value_func |-> r.func, value_grad |-> <<>>, object_after |-> <<>>]

NoOutput ==
    [shape |-> "none", func |-> None, grad |-> <<>>, value_func |-> None,
     value_grad |-> <<>>, object_after |-> <<>>]

VARIABLES self, last, wrappers, arrays, normal_draws, gamma_draws, gbuf, seen, calls

vars == <<self, last, wrappers, arrays, normal_draws, gamma_draws, gbuf, seen, calls>>

(***************************************************************************)
(* State.  self: the configuration entity.  wrappers: the closures the     *)
(* randomise calls returned, each with the array it captured (an index of  *)
(* arrays, the noise arrays allocated so far), its residual delta and its  *)
(* objective.  normal_draws, gamma_draws: the calls made of                *)
(* np.random.normal and np.random.gamma.  gbuf: per dimension, the content *)
(* of the gradient array of the "pair_shared" objective.  last: the last   *)
(* call, what it raised and returned.  seen: what wrapper calls returned.  *)
(***************************************************************************)
Dimensions == {1, 2}

Init ==
    /\ self = VectorInit
    /\ last = [op |-> "init", res |-> "ok", arg |-> <<>>, budget |-> NoBudget,
               out |-> NoOutput]
    /\ wrappers = <<>>
    /\ arrays = <<>>
    /\ normal_draws = 0
    /\ gamma_draws = 0
    /\ gbuf = [n \in Dimensions |-> ZeroVector(n)]
    /\ seen = {}
    /\ calls = 0

Called(op, res, arg) ==
    [op |-> op, res |-> res, arg |-> arg, budget |-> NoBudget, out |-> NoOutput]

set_epsilon_delta(E, D) ==
    \E epsilon \in E, delta \in D :
        LET r == SetEpsilonDelta(self, epsilon, delta)
        IN  /\ self' = r.self
            /\ last' = Called("set_epsilon_delta", r.res, <<epsilon, delta>>)
            /\ UNCHANGED <<wrappers, arrays, normal_draws, gamma_draws, gbuf, seen, calls>>

set_sensitivity(CG) ==
    \E cg \in CG :
        LET r == SetSensitivity(self, cg[1], cg[2])
        IN  /\ self' = r.self
            /\ last' = Called("set_sensitivity", r.res, cg)
            /\ UNCHANGED <<wrappers, arrays, normal_draws, gamma_draws, gbuf, seen, calls>>

set_alpha(A) ==
    \E alpha \in A :
        LET r == SetAlpha(self, alpha)
        IN  /\ self' = r.self
            /\ last' = Called("set_alpha", r.res, <<alpha>>)
            /\ UNCHANGED <<wrappers, arrays, normal_draws, gamma_draws, gbuf, seen, calls>>

set_dimension(Ds) ==
    \E d \in Ds :
        LET r == SetDimension(self, d)
        IN  /\ self' = r.self
            /\ last' = Called("set_dimension", r.res, <<d>>)
            /\ UNCHANGED <<wrappers, arrays, normal_draws, gamma_draws, gbuf, seen, calls>>

check_inputs(V) ==
    \E value \in V :
        /\ last' = Called("check_inputs", CheckInputs(self, value), <<value>>)
        /\ UNCHANGED <<self, wrappers, arrays, normal_draws, gamma_draws, gbuf, seen, calls>>

randomise(V, max) ==
    \E value \in V :
        LET p == RandomisePlan(self, value)
        IN  /\ p.normal > 0 => normal_draws < max
            /\ self' = p.self
            /\ normal_draws' = normal_draws + p.normal
            /\ gamma_draws' = gamma_draws + p.gamma
            /\ last' = [op |-> "randomise", res |-> p.res, arg |-> <<value>>,
                        budget |-> p.budget, out |-> NoOutput]
            /\ IF p.res = "ok"
               THEN \E b \in NoiseVectors(self.d.v, p.inv_scale) :
                        /\ arrays' = Capture(arrays, b).arrays
                        /\ wrappers' = Append(wrappers,
                               [noise |-> Capture(arrays, b).noise,
                                delta |-> p.budget.delta, value |-> value.k])
               ELSE UNCHANGED <<wrappers, arrays>>
            /\ UNCHANGED <<gbuf, seen, calls>>

\* the vectors the optimizer evaluates a wrapper of dimension n at
InputVectors(n) == {w \in [1..n -> {Zero, One}] : w[1] = One}

\* what wrapped(w) of the i-th wrapper returns when called now
WrappedAt(i, w) ==
    OutputFunc(arrays[wrappers[i].noise], wrappers[i].delta, w,
               ValueOf(wrappers[i].value, w, gbuf[Len(w)]))

\* one call wrapped(w) of a wrapper
call ==
    \E i \in DOMAIN wrappers :
        LET n == Len(arrays[wrappers[i].noise])
        IN  \E w \in InputVectors(n) :
                LET o == WrappedAt(i, w)
                IN  /\ calls < MaxCalls
                    /\ calls' = calls + 1
                    /\ gbuf' = IF wrappers[i].value = "pair_shared"
                               THEN [gbuf EXCEPT ![n] = o.object_after]
                               ELSE gbuf
                    /\ seen' = seen \cup {[wrapper |-> i, w |-> w, shape |-> o.shape,
                                           func |-> o.func, grad |-> o.grad]}
                    /\ last' = [op |-> "call", res |-> "ok", arg |-> <<IntVal(i)>> \o w,
                                budget |-> NoBudget, out |-> o]
                    /\ UNCHANGED <<self, wrappers, arrays, normal_draws, gamma_draws>>

(***************************************************************************)
(* The calls of a client.  Spec: every setter, check_inputs and randomise  *)
(* with valid and invalid arguments.  SpecBudget: valid configurations on  *)
(* both sides of the fallback of the budget.  SpecReuse: one entity,       *)
(* reconfigured and randomised several times.  SpecCalls: randomise of     *)
(* every kind of objective, and calls of the wrappers.                     *)
(***************************************************************************)
Eight == Fin(8 * Unit)

\* the epsilon at which epsilon - 2 ln(1 + c g / (0.5 a)) is exactly zero for
\* c = 1, g = 1, a = 8
EpsilonAtThreshold == Mul(Two, Ln(Add(One, Div(One, Four))))

EpsilonArgs == {One, Zero, NonNumber}
DeltaArgs == {IntVal(0), Half, NaN}
FunctionSensitivityArgs == {One, NaN, Zero, NonNumber}
DataSensitivityArgs == {IntVal(1), PosInf, NaN, Neg(One)}
AlphaArgs == {Two, NaN, Zero, NonNumber}
DimensionArgs ==
    {IntVal(1), Two, Fin(Unit + Unit \div 2), Zero, Neg(One), NaN, PosInf, NegInf,
     NonNumber}
ValueArgs == {Function("scalar"), NonNumber}

Next ==
    \/ set_epsilon_delta(EpsilonArgs, DeltaArgs)
    \/ set_sensitivity(FunctionSensitivityArgs \X DataSensitivityArgs)
    \/ set_alpha(AlphaArgs)
    \/ set_dimension(DimensionArgs)
    \/ check_inputs(ValueArgs)
    \/ randomise(ValueArgs, MaxDraws)

Spec == Init /\ [][Next]_vars

NextBudget ==
    \/ set_epsilon_delta({One, EpsilonAtThreshold}, {IntVal(0)})
    \/ set_sensitivity({<<One, IntVal(1)>>, <<Half, Four>>})
    \/ set_alpha({Eight})
    \/ set_dimension({IntVal(2)})
    \/ randomise({Function("scalar")}, MaxDraws)

SpecBudget == Init /\ [][NextBudget]_vars

NextReuse ==
    \/ set_epsilon_delta({One}, {IntVal(0)})
    \/ set_sensitivity({<<One, IntVal(1)>>})
    \/ set_alpha({Two})
    \/ set_dimension({IntVal(1), Two})
    \/ check_inputs({Function("scalar")})
    \/ randomise({Function("scalar")}, MaxReuse)

SpecReuse == Init /\ [][NextReuse]_vars

NextCalls ==
    \/ set_epsilon_delta({One}, {IntVal(0)})
    \/ set_sensitivity({<<One, IntVal(1)>>})
    \/ set_alpha({Eight})
    \/ set_dimension({IntVal(1), IntVal(2)})
    \/ randomise({Function(f) : f \in Callables}, MaxDraws)
    \/ call

SpecCalls == Init /\ [][NextCalls]_vars

(***************************************************************************)
(* The claims                                                              *)
(***************************************************************************)
\* the Ready state: epsilon, both sensitivities and the dimension are set
Ready(s) ==
    /\ s.epsilon # None
    /\ s.function_sensitivity # None
    /\ s.data_sensitivity # None
    /\ s.d # None

\* C1: randomise of a callable raises ValueError whenever the function
\* sensitivity or the dimension is unset, with epsilon set or not, and a
\* wrapper is returned only from the Ready state.
RandomiseNeedsReady ==
    [][/\ (last'.op = "randomise" /\ IsCallable(last'.arg[1]))
            => /\ (self.function_sensitivity = None \/ self.d = None)
                    => last'.res = "ValueError"
               /\ last'.res = "ok" => Ready(self)
       /\ Len(wrappers') > Len(wrappers)
            => Ready(self) /\ last'.op = "randomise" /\ last'.res = "ok"]_vars

\* C1, its case: epsilon and the sensitivities are set, the dimension is not,
\* and randomise of a callable has raised ValueError
RandomiseBeforeDimension ==
    /\ last.op = "randomise"
    /\ IsCallable(last.arg[1])
    /\ last.res = "ValueError"
    /\ self.epsilon # None
    /\ self.function_sensitivity # None
    /\ self.d = None

\* C2: a randomise call that fails leaves every field of the entity as it
\* was, has made no random draw and returns no callable.
FailedRandomiseDrawsNothing ==
    [][(last'.op = "randomise" /\ last'.res # "ok")
            => /\ self' = self
               /\ normal_draws' = normal_draws
               /\ gamma_draws' = gamma_draws
               /\ arrays' = arrays
               /\ wrappers' = wrappers]_vars

\* C3: two calls wrapped(w) of one wrapper with the same w return the same
\* value and gradient, whatever calls are made in between.
SameArgumentSameOutput ==
    \A x, y \in seen : (x.wrapper = y.wrapper /\ x.w = y.w) => x = y

\* C4: a call of a wrapper writes nothing: the gradient array the objective
\* returned holds afterwards what the objective put in it.
WrapperCallWritesNothing ==
    last.op = "call" => last.out.object_after = last.out.value_grad

\* C5: no setter and no later randomise changes the noise array, the residual
\* delta or the outputs of a wrapper already returned, and no two wrappers
\* hold the same noise array.
WrapperKeepsItsNoise ==
    [][/\ \A i \in DOMAIN wrappers :
            /\ i \in DOMAIN wrappers'
            /\ wrappers'[i] = wrappers[i]
            /\ arrays'[wrappers'[i].noise] = arrays[wrappers[i].noise]
            /\ \A w \in InputVectors(Len(arrays[wrappers[i].noise])) :
                   OutputFunc(arrays'[wrappers'[i].noise], wrappers'[i].delta, w,
                              ValueOf(wrappers'[i].value, w, gbuf'[Len(w)]))
                       = WrappedAt(i, w)
       /\ \A i, j \in DOMAIN wrappers' :
            i # j => wrappers'[i].noise # wrappers'[j].noise]_vars

\* C5, its case: two wrappers are out, and set_dimension has since given the
\* entity another dimension than the first wrapper was made with
ReconfiguredAfterTwoWrappers ==
    /\ Len(wrappers) = 2
    /\ last.op = "set_dimension"
    /\ last.res = "ok"
    /\ self.d.v # Len(arrays[wrappers[1].noise])
    /\ arrays[wrappers[1].noise] # arrays[wrappers[2].noise]

\* C6: a randomise call that returns a wrapper leaves every field of the
\* entity as it was, in the Ready state, has drawn from the sampler exactly
\* once for a noise array of length d, and a further randomise succeeds too.
RandomiseOnlyReads ==
    [][/\ (last'.op = "randomise" /\ last'.res = "ok")
            => /\ self' = self
               /\ Ready(self')
               /\ normal_draws' = normal_draws + 1
               /\ gamma_draws' = gamma_draws + 1
               /\ Len(wrappers') = Len(wrappers) + 1
               /\ Len(arrays') = Len(arrays) + 1
               /\ Len(arrays'[wrappers'[Len(wrappers')].noise]) = self.d.v
       /\ (/\ last.op = "randomise" /\ last.res = "ok"
           /\ last'.op = "randomise" /\ IsCallable(last'.arg[1]))
            => last'.res = "ok"]_vars

\* C6, its case: the entity has been randomised twice, both with success
RandomisedTwice ==
    /\ last.op = "randomise"
    /\ last.res = "ok"
    /\ normal_draws = 2
    /\ gamma_draws = 2
    /\ Len(wrappers) = 2

\* the inner product, term by term from the last
RECURSIVE Inner(_, _, _)
Inner(x, y, n) == IF n = 0 THEN Zero ELSE Add(Inner(x, y, n - 1), Mul(x[n], y[n]))

\* C7: wrapped(w) returns f + dot(b, w) + 0.5 * deltaResidual * dot(w, w), bare
\* when the objective returned the bare scalar f, and with the gradient
\* grad + b + deltaResidual * w, of the length of grad, when it returned
\* the pair (f, grad).
PerturbationFormula ==
    last.op = "call" =>
        LET i == last.arg[1].v
            w == Tail(last.arg)
            b == arrays[wrappers[i].noise]
            dr == wrappers[i].delta
            o == last.out
            n == Len(w)
        IN  /\ o.func = Add(Add(o.value_func, Inner(b, w, n)),
                            Mul(Mul(Half, dr), Inner(w, w, n)))
            /\ wrappers[i].value = "scalar" => o.shape = "scalar"
            /\ wrappers[i].value # "scalar" =>
                   /\ o.shape = "pair"
                   /\ Len(o.grad) = Len(o.value_grad)
                   /\ \A j \in 1..Len(o.value_grad) :
                          o.grad[j] = Add(Add(o.value_grad[j], b[j]), Mul(dr, w[j]))

\* C7, its case: b = [0.3, -0.4], deltaResidual = 0, the objective returned
\* (0, [0, 0]), w = [1, 1], and the call returned (-0.1, [0.3, -0.4])
PerturbationExample ==
    /\ last.op = "call"
    /\ Tail(last.arg) = <<One, One>>
    /\ last.out.value_func = Zero
    /\ last.out.value_grad = <<Zero, Zero>>
    /\ Eq(wrappers[last.arg[1].v].delta, Zero)
    /\ arrays[wrappers[last.arg[1].v].noise] = <<Fin(3000), Fin(-4000)>>
    /\ last.out.shape = "pair"
    /\ last.out.func = Fin(-1000)
    /\ last.out.grad = <<Fin(3000), Fin(-4000)>>

\* d is integer-valued, and the integer it is
IntegerValued(d) == d.k = "int" \/ (d.k = "fin" /\ d.v % Unit = 0)
IntegerOf(d) == IF d.k = "int" THEN d ELSE IntVal(d.v \div Unit)

\* C8: set_dimension(d) of a numeric d succeeds, storing int(d), if and only
\* if d is integer-valued and at least 1; it raises TypeError for a d that is
\* not numeric or not integer-valued, ValueError for an integer-valued d
\* below 1.
SetDimensionContract ==
    last.op = "set_dimension" =>
        LET d == last.arg[1]
        IN  /\ IsReal(d) => (last.res = "ok" <=> (IntegerValued(d) /\ Le(One, d)))
            /\ last.res = "ok" => self.d = IntegerOf(d)
            /\ (~IsReal(d) \/ ~IntegerValued(d)) => last.res = "TypeError"
            /\ (IsReal(d) /\ IntegerValued(d) /\ Lt(d, One)) => last.res = "ValueError"

\* C9: with e0 = epsilon - 2 ln(1 + c g / (0.5 alpha)), randomise takes
\* epsilonPrime = e0 and deltaResidual = 0 when e0 > 0, and
\* deltaResidual = c g / (exp(epsilon / 4) - 1) - 0.5 alpha and
\* epsilonPrime = epsilon / 2 when e0 <= 0; the sampler's scale is
\* epsilonPrime / (2 g); and the wrapper captures that deltaResidual.
BudgetDerivation ==
    (/\ last.op = "randomise" /\ last.res = "ok"
     /\ Lt(Zero, self.epsilon) /\ Lt(Zero, self.function_sensitivity)
     /\ Lt(Zero, self.data_sensitivity) /\ Lt(Zero, self.alpha)) =>
        LET cg == Mul(self.function_sensitivity, self.data_sensitivity)
            ha == Mul(Half, self.alpha)
            e0 == Sub(self.epsilon, Mul(Two, Ln(Add(One, Div(cg, ha)))))
            got == last.budget
        IN  /\ Lt(Zero, e0) => got.epsilon_p = e0 /\ Eq(got.delta, Zero)
            /\ Le(e0, Zero) =>
                   /\ got.epsilon_p = Div(self.epsilon, Two)
                   /\ got.delta = Sub(Div(cg, Sub(Exp(Div(self.epsilon, Four)), One)), ha)
            /\ got.scale = Div(got.epsilon_p, Mul(Two, self.data_sensitivity))
            /\ wrappers[Len(wrappers)].delta = got.delta

\* C9, its case: epsilon = 1, c = 1, g = 1, alpha = 0.01 takes the fallback,
\* with epsilonPrime = 0.5 and deltaResidual = 1 / (exp(0.25) - 1) - 0.005
BudgetExample ==
    /\ last.op = "randomise"
    /\ last.res = "ok"
    /\ self.epsilon = One
    /\ self.function_sensitivity = One
    /\ Eq(self.data_sensitivity, One)
    /\ self.alpha = Fin(Unit \div 100)
    /\ last.budget.epsilon_p = Half
    /\ last.budget.delta =
           Sub(Div(One, Sub(Exp(Fin(Unit \div 4)), One)), Fin(Unit \div 200))

\* C10: the stored configuration is valid in every reachable state: delta is
\* unset or 0, the function sensitivity unset or > 0, the data sensitivity
\* and alpha set and > 0, the dimension unset or an integer >= 1.
StoredConfigurationValid ==
    /\ self.delta = None \/ Eq(self.delta, Zero)
    /\ self.function_sensitivity = None \/ Lt(Zero, self.function_sensitivity)
    /\ self.data_sensitivity # None /\ Lt(Zero, self.data_sensitivity)
    /\ self.alpha # None /\ Lt(Zero, self.alpha)
    /\ self.d = None \/ (self.d.k = "int" /\ self.d.v >= 1)

\* C10, the rest of it: a setter that raises stores none of its arguments, and
\* no call returns a field from set to unset.
FailedSetterStoresNothing ==
    [][/\ last'.res # "ok" => self' = self
       /\ \A f \in DOMAIN self : self[f] # None => self'[f] # None]_vars

\* C10, the case of its example: set_sensitivity with a valid c and an invalid g
\* has raised, and the function sensitivity is still unset
SetSensitivityHalfValid ==
    /\ last.op = "set_sensitivity"
    /\ last.res = "ValueError"
    /\ Lt(Zero, last.arg[1])
    /\ self.function_sensitivity = None

====
